---- MODULE Spec2Model ----
(***************************************************************************)
(* Model of the xCDN in-memory document model (src/xcdn/ast.py).           *)
(*                                                                         *)
(* Python objects have identity, so Nodes live in a heap: heap[id] is the  *)
(* Node object with identity id, and containers hold Node ids.  A Value    *)
(* object (Int, Array, Object, ...) is held inline in the Node that owns   *)
(* it; a raw Python int that was never wrapped in a Value variant has      *)
(* kind "int", the variant Int(n) has kind "Int".  Python exceptions keep  *)
(* their names: KeyError, IndexError, TypeError.                           *)
(***************************************************************************)
EXTENDS Integers, Sequences, FiniteSets, TLC

VARIABLES heap, values, prolog, last, ops

vars == <<heap, values, prolog, last, ops>>

(* ------------------------------ bounds --------------------------------- *)

\* largest number of Node objects alive in the heap
MaxNodes == 4
\* largest length of a list / number of entries of a dict
MaxLen == 2
\* longest sequence of operations a caller performs
MaxOps == 3

StrKeys == {"a", "b"}
Indices == (0 - (MaxLen + 1)) .. MaxLen

(* ------------------------------ values --------------------------------- *)

\* a key passed to [] : a Python str or a Python int
StrKey(s) == [t |-> "str", s |-> s, i |-> 0]
IntKey(i) == [t |-> "int", s |-> "", i |-> i]
AllKeys == {StrKey(s) : s \in StrKeys} \cup {IntKey(i) : i \in Indices}
\* one key of each kind
KindKeys == {StrKey("a"), IntKey(0)}

\* a raw Python int (not a Value variant)
PyInt(n) == [kind |-> "int", v |-> n, items |-> <<>>, entries |-> <<>>]
\* Int(n)
Int_(n) == [kind |-> "Int", v |-> n, items |-> <<>>, entries |-> <<>>]
\* Array(value = items), items a list of Node ids
Array(items) == [kind |-> "Array", v |-> 0, items |-> items, entries |-> <<>>]
\* Object(value = entries), entries the dict in insertion order
Object(entries) == [kind |-> "Object", v |-> 0, items |-> <<>>, entries |-> entries]

\* Node(tags, annotations, value)
Node(tags, annotations, value) ==
    [tags |-> tags, annotations |-> annotations, value |-> value]

\* Node.new(value)
NodeNew(value) == Node(<<>>, <<>>, value)

\* what a caller passes as the value of a write: a Node object it holds
\* (isinstance(value, Node)) or a bare payload
NodeArg(id) == [isNode |-> TRUE, id |-> id, val |-> PyInt(0)]
RawArg(val) == [isNode |-> FALSE, id |-> 0, val |-> val]

Payloads == {PyInt(5), Int_(5)}

\* value if isinstance(value, Node) else Node.new(value):
\* the heap after the expression and the id of the Node it yields
Wrap(h, arg) ==
    IF arg.isNode THEN [heap |-> h, id |-> arg.id]
    ELSE [heap |-> Append(h, NodeNew(arg.val)), id |-> Len(h) + 1]

(* ------------------------ Python list and dict ------------------------- *)

\* ListIndex with the index taken as 1-based
ListIndexOneBased(len, i) ==
    LET j == IF i < 0 THEN i + len ELSE i
    IN  IF j >= 1 /\ j <= len THEN j ELSE 0

\* list[i]: the 1-based position addressed by index i in a list of
\* length len, 0 when Python raises IndexError
ListIndex(len, i) ==
    LET j == IF i < 0 THEN i + len ELSE i
    IN  IF j >= 0 /\ j < len THEN j + 1 ELSE 0

\* position of key k in the dict, 0 when absent
DictFind(entries, k) ==
    IF \E p \in 1..Len(entries) : entries[p].key = k
    THEN CHOOSE p \in 1..Len(entries) : entries[p].key = k
    ELSE 0

\* DictSet that deletes a present key and inserts it again
DictSetMoveToEnd(entries, k, n) ==
    Append(SelectSeq(entries, LAMBDA e : e.key # k), [key |-> k, node |-> n])

\* dict[k] = n: a present key keeps its position, a new key goes last
DictSet(entries, k, n) ==
    LET p == DictFind(entries, k)
    IN  IF p > 0 THEN [entries EXCEPT ![p] = [key |-> k, node |-> n]]
        ELSE Append(entries, [key |-> k, node |-> n])

(* ------------------------ outcome of an operation ---------------------- *)

Ok(h, vs, ret, flag) ==
    [status |-> "ok", ret |-> ret, flag |-> flag, heap |-> h, values |-> vs]
Raise(h, vs, exc) ==
    [status |-> exc, ret |-> 0, flag |-> FALSE, heap |-> h, values |-> vs]

(* ------------------------------- Array --------------------------------- *)

\* Array.__getitem__(index) on the Array held by Node a
ArrayGetItem(h, vs, a, key) ==
    LET items == h[a].value.items
        p == ListIndex(Len(items), key.i)
    IN  IF key.t # "int" THEN Raise(h, vs, "TypeError")
        ELSE IF p = 0 THEN Raise(h, vs, "IndexError")
        ELSE Ok(h, vs, items[p], FALSE)

\* Array.__setitem__(index, value); the Node the right-hand side may have
\* built before the failing store is garbage, the heap keeps no trace of it
ArraySetItem(h, vs, a, key, arg) ==
    LET w == Wrap(h, arg)
        p == ListIndex(Len(h[a].value.items), key.i)
    IN  IF key.t # "int" THEN Raise(h, vs, "TypeError")
        ELSE IF p = 0 THEN Raise(h, vs, "IndexError")
        ELSE Ok([w.heap EXCEPT ![a].value.items[p] = w.id], vs, 0, FALSE)

\* Array.append(value)
ArrayAppend(h, vs, a, arg) ==
    LET w == Wrap(h, arg)
    IN  Ok([w.heap EXCEPT ![a].value.items = Append(@, w.id)], vs, 0, FALSE)

(* ------------------------------- Object -------------------------------- *)

\* Object.__getitem__(key)
ObjectGetItem(h, vs, o, key) ==
    LET entries == h[o].value.entries
        p == DictFind(entries, key)
    IN  IF p = 0 THEN Raise(h, vs, "KeyError")
        ELSE Ok(h, vs, entries[p].node, FALSE)

\* Object.__setitem__(key, value)
ObjectSetItem(h, vs, o, key, arg) ==
    LET w == Wrap(h, arg)
    IN  Ok([w.heap EXCEPT ![o].value.entries = DictSet(@, key, w.id)],
           vs, 0, FALSE)

\* Object.__contains__(key)
ObjectContains(h, vs, o, key) ==
    Ok(h, vs, 0, DictFind(h[o].value.entries, key) > 0)

\* Object.keys(), Object.values_iter(), Object.items() as lists
Keys(h, o) ==
    [p \in 1..Len(h[o].value.entries) |-> h[o].value.entries[p].key]
ValuesIter(h, o) ==
    [p \in 1..Len(h[o].value.entries) |-> h[o].value.entries[p].node]
Items(h, o) ==
    [p \in 1..Len(h[o].value.entries) |->
        <<h[o].value.entries[p].key, h[o].value.entries[p].node>>]

(* -------------------------------- Node --------------------------------- *)

\* Node.__getitem__(key): self.value[key]
NodeGetItem(h, vs, n, key) ==
    IF h[n].value.kind = "Array" THEN ArrayGetItem(h, vs, n, key)
    ELSE IF h[n].value.kind = "Object" THEN ObjectGetItem(h, vs, n, key)
    ELSE Raise(h, vs, "TypeError")

\* Node.__setitem__(key, value): self.value[key] = value
NodeSetItem(h, vs, n, key, arg) ==
    IF h[n].value.kind = "Array" THEN ArraySetItem(h, vs, n, key, arg)
    ELSE IF h[n].value.kind = "Object" THEN ObjectSetItem(h, vs, n, key, arg)
    ELSE Raise(h, vs, "TypeError")

(* ------------------------------ Document ------------------------------- *)

\* DocGetItem that looks the key up in the last top-level value
DocGetItemLast(h, vs, key) ==
    IF key.t = "int"
    THEN LET p == ListIndex(Len(vs), key.i)
         IN  IF p = 0 THEN Raise(h, vs, "IndexError")
             ELSE Ok(h, vs, vs[p], FALSE)
    ELSE IF vs # <<>> /\ h[vs[Len(vs)]].value.kind = "Object"
         THEN ObjectGetItem(h, vs, vs[Len(vs)], key)
         ELSE Raise(h, vs, "KeyError")

\* Document.__getitem__(key)
DocGetItem(h, vs, key) ==
    IF key.t = "int"
    THEN LET p == ListIndex(Len(vs), key.i)
         IN  IF p = 0 THEN Raise(h, vs, "IndexError")
             ELSE Ok(h, vs, vs[p], FALSE)
    ELSE IF vs # <<>> /\ h[vs[1]].value.kind = "Object"
         THEN ObjectGetItem(h, vs, vs[1], key)
         ELSE Raise(h, vs, "KeyError")

\* DocSetItem without the creation of the top-level Object
DocSetItemNoCreate(h, vs, key, arg) ==
    IF key.t = "int"
    THEN LET w == Wrap(h, arg)
             p == ListIndex(Len(vs), key.i)
         IN  IF p = 0 THEN Raise(h, vs, "IndexError")
             ELSE Ok(w.heap, [vs EXCEPT ![p] = w.id], 0, FALSE)
    ELSE IF vs # <<>> /\ h[vs[1]].value.kind = "Object"
         THEN ObjectSetItem(h, vs, vs[1], key, arg)
         ELSE Raise(h, vs, "TypeError")

\* DocSetItem that puts an Object in the place of a first value that is none
DocSetItemCoerce(h, vs, key, arg) ==
    IF key.t = "int"
    THEN LET w == Wrap(h, arg)
             p == ListIndex(Len(vs), key.i)
         IN  IF p = 0 THEN Raise(h, vs, "IndexError")
             ELSE Ok(w.heap, [vs EXCEPT ![p] = w.id], 0, FALSE)
    ELSE LET fresh == vs = <<>> \/ h[vs[1]].value.kind # "Object"
             h1 == IF fresh THEN Append(h, NodeNew(Object(<<>>))) ELSE h
             vs1 == IF vs = <<>> THEN <<Len(h) + 1>>
                    ELSE IF fresh THEN [vs EXCEPT ![1] = Len(h) + 1]
                    ELSE vs
         IN  ObjectSetItem(h1, vs1, vs1[1], key, arg)

\* DocSetItem that appends when the index is the length of values
DocSetItemExtend(h, vs, key, arg) ==
    IF key.t = "int"
    THEN LET w == Wrap(h, arg)
             p == ListIndex(Len(vs), key.i)
         IN  IF key.i = Len(vs) THEN Ok(w.heap, Append(vs, w.id), 0, FALSE)
             ELSE IF p = 0 THEN Raise(h, vs, "IndexError")
             ELSE Ok(w.heap, [vs EXCEPT ![p] = w.id], 0, FALSE)
    ELSE LET h1 == IF vs = <<>> THEN Append(h, NodeNew(Object(<<>>))) ELSE h
             vs1 == IF vs = <<>> THEN <<Len(h) + 1>> ELSE vs
         IN  IF h1[vs1[1]].value.kind = "Object"
             THEN ObjectSetItem(h1, vs1, vs1[1], key, arg)
             ELSE Raise(h1, vs1, "TypeError")

\* Document.__setitem__(key, value)
DocSetItem(h, vs, key, arg) ==
    IF key.t = "int"
    THEN LET w == Wrap(h, arg)
             p == ListIndex(Len(vs), key.i)
         IN  IF p = 0 THEN Raise(h, vs, "IndexError")
             ELSE Ok(w.heap, [vs EXCEPT ![p] = w.id], 0, FALSE)
    ELSE LET h1 == IF vs = <<>> THEN Append(h, NodeNew(Object(<<>>))) ELSE h
             vs1 == IF vs = <<>> THEN <<Len(h) + 1>> ELSE vs
         IN  IF h1[vs1[1]].value.kind = "Object"
             THEN ObjectSetItem(h1, vs1, vs1[1], key, arg)
             ELSE Raise(h1, vs1, "TypeError")

\* DocContains without the test that values is non-empty
DocContainsUnguarded(h, vs, key) ==
    IF vs = <<>> THEN Raise(h, vs, "IndexError")
    ELSE IF h[vs[1]].value.kind = "Object"
    THEN ObjectContains(h, vs, vs[1], key)
    ELSE Ok(h, vs, 0, FALSE)

\* Document.__contains__(key)
DocContains(h, vs, key) ==
    IF vs # <<>> /\ h[vs[1]].value.kind = "Object"
    THEN ObjectContains(h, vs, vs[1], key)
    ELSE Ok(h, vs, 0, FALSE)

(* --------------------------- state machine ----------------------------- *)

\* Directive(name, value)
Directive(name, value) == [name |-> name, value |-> value]

\* the Documents a caller starts from: Document.new(), or the dataclass
\* constructor given the top-level Nodes
InitDocs ==
    { [heap |-> <<>>, values |-> <<>>],
      [heap |-> <<Node(<<"t">>, <<>>, Int_(5))>>, values |-> <<1>>],
      [heap |-> <<NodeNew(Array(<<>>))>>, values |-> <<1>>],
      [heap |-> <<NodeNew(Array(<<2, 3>>)), Node(<<"t">>, <<>>, Int_(5)),
                  NodeNew(Int_(6))>>,
       values |-> <<1>>],
      [heap |-> <<NodeNew(Object(<<>>)),
                  NodeNew(Object(<<[key |-> StrKey("a"), node |-> 3]>>)),
                  NodeNew(Int_(5))>>,
       values |-> <<1, 2>>],
      [heap |-> <<NodeNew(Object(<<[key |-> StrKey("a"), node |-> 2],
                                   [key |-> StrKey("b"), node |-> 3]>>)),
                  Node(<<"t">>, <<>>, Int_(5)), NodeNew(Int_(6))>>,
       values |-> <<1>>] }

InitPrologs == {<<Directive("schema", Int_(1))>>}

NoKey == StrKey("")
NoArg == NodeArg(0)

Init ==
    /\ \E d \in InitDocs : heap = d.heap /\ values = d.values
    /\ prolog \in InitPrologs
    /\ last = [op |-> "init", target |-> 0, key |-> NoKey, arg |-> NoArg,
               status |-> "ok", ret |-> 0, flag |-> FALSE,
               preHeap |-> heap, preValues |-> values, preProlog |-> prolog]
    /\ ops = 0

NodeIds == 1..Len(heap)
ArrayIds == {n \in NodeIds : heap[n].value.kind = "Array"}
ObjectIds == {n \in NodeIds : heap[n].value.kind = "Object"}

\* the values a caller passes: a bare payload, or the Node the previous
\* operation returned to it
Args == {RawArg(v) : v \in Payloads} \cup {NodeArg(n) : n \in NodeIds \cap {last.ret}}

\* the outcome stays within the bounds of the model
Fits(out) ==
    /\ Len(out.heap) <= MaxNodes
    /\ Len(out.values) <= MaxLen
    /\ \A n \in 1..Len(out.heap) :
          /\ Len(out.heap[n].value.items) <= MaxLen
          /\ Len(out.heap[n].value.entries) <= MaxLen

\* the operation returns or raises; the caller observes the outcome
Step(op, target, key, arg, out) ==
    /\ ops < MaxOps
    /\ ops' = ops + 1
    /\ Fits(out)
    /\ heap' = out.heap
    /\ values' = out.values
    /\ prolog' = prolog
    /\ last' = [op |-> op, target |-> target, key |-> key, arg |-> arg,
                status |-> out.status, ret |-> out.ret, flag |-> out.flag,
                preHeap |-> heap, preValues |-> values, preProlog |-> prolog]

\* the caller builds a Node it keeps a reference to: Node.new(value)
NodeNewAct ==
    \E v \in Payloads :
        Step("Node.new", 0, NoKey, RawArg(v),
             Ok(Append(heap, NodeNew(v)), values, Len(heap) + 1, FALSE))

DocGetItemAct ==
    \E k \in AllKeys :
        Step("Document.getitem", 0, k, NoArg, DocGetItem(heap, values, k))

DocSetItemAct ==
    \E k \in AllKeys, x \in Args :
        Step("Document.setitem", 0, k, x, DocSetItem(heap, values, k, x))

DocContainsAct ==
    \E k \in {StrKey(s) : s \in StrKeys} \cup {IntKey(0)} :
        Step("Document.contains", 0, k, NoArg, DocContains(heap, values, k))

NodeGetItemAct ==
    \E n \in NodeIds, k \in KindKeys :
        Step("Node.getitem", n, k, NoArg, NodeGetItem(heap, values, n, k))

NodeSetItemAct ==
    \E n \in NodeIds, k \in KindKeys, x \in Args :
        Step("Node.setitem", n, k, x, NodeSetItem(heap, values, n, k, x))

ArrayGetItemAct ==
    \E a \in ArrayIds, i \in Indices :
        Step("Array.getitem", a, IntKey(i), NoArg,
             ArrayGetItem(heap, values, a, IntKey(i)))

ArraySetItemAct ==
    \E a \in ArrayIds, i \in Indices, x \in Args :
        Step("Array.setitem", a, IntKey(i), x,
             ArraySetItem(heap, values, a, IntKey(i), x))

ArrayAppendAct ==
    \E a \in ArrayIds, x \in Args :
        Step("Array.append", a, NoKey, x, ArrayAppend(heap, values, a, x))

ObjectGetItemAct ==
    \E o \in ObjectIds, s \in StrKeys :
        Step("Object.getitem", o, StrKey(s), NoArg,
             ObjectGetItem(heap, values, o, StrKey(s)))

ObjectSetItemAct ==
    \E o \in ObjectIds, s \in StrKeys, x \in Args :
        Step("Object.setitem", o, StrKey(s), x,
             ObjectSetItem(heap, values, o, StrKey(s), x))

ObjectContainsAct ==
    \E o \in ObjectIds, s \in StrKeys :
        Step("Object.contains", o, StrKey(s), NoArg,
             ObjectContains(heap, values, o, StrKey(s)))

Next ==
    \/ NodeNewAct
    \/ DocGetItemAct
    \/ DocSetItemAct
    \/ DocContainsAct
    \/ NodeGetItemAct
    \/ NodeSetItemAct
    \/ ArrayGetItemAct
    \/ ArraySetItemAct
    \/ ArrayAppendAct
    \/ ObjectGetItemAct
    \/ ObjectSetItemAct
    \/ ObjectContainsAct

Spec == Init /\ [][Next]_vars

(* ----------------------------- properties ------------------------------ *)

\* error kinds of the specification, as the Python exceptions that carry them
KeyNotFound == "KeyError"
IndexOutOfRange == "IndexError"
TypeMismatch == "TypeError"

Unchanged ==
    /\ heap = last.preHeap
    /\ values = last.preValues
    /\ prolog = last.preProlog

KindOf(h, n) == h[n].value.kind
HasKey(h, o, k) == \E p \in 1..Len(h[o].value.entries) : h[o].value.entries[p].key = k

\* the Node a successful write has stored
Stored == IF last.arg.isNode THEN last.arg.id ELSE Len(heap)

\* the last operation was a successful set(key, value) on the Object of Node o
IsObjectSet(o) ==
    /\ last.status = "ok"
    /\ \/ last.op \in {"Object.setitem", "Node.setitem"} /\ last.target = o
       \/ /\ last.op = "Document.setitem"
          /\ last.key.t = "str"
          /\ last.preValues # <<>>
          /\ last.preValues[1] = o

\* C1: keys(), values and items of every Object keep the order of first
\* insertion: a set on a present key replaces its Node in place, a set on a
\* new key puts it last, and no other operation changes the order.
C1_OrderPreserved ==
    \A o \in 1..Len(last.preHeap) :
        KindOf(last.preHeap, o) = "Object" =>
            LET before == Keys(last.preHeap, o)
                after == Keys(heap, o)
                nodesBefore == ValuesIter(last.preHeap, o)
                nodesAfter == ValuesIter(heap, o)
            IN  IF IsObjectSet(o)
                THEN IF \E p \in 1..Len(before) : before[p] = last.key
                     THEN /\ after = before
                          /\ \A p \in 1..Len(before) :
                                nodesAfter[p] = IF before[p] = last.key
                                                THEN Stored
                                                ELSE nodesBefore[p]
                     ELSE /\ after = Append(before, last.key)
                          /\ nodesAfter = Append(nodesBefore, Stored)
                ELSE after = before /\ nodesAfter = nodesBefore

C1_Witness ==
    /\ last.op = "Object.setitem"
    /\ last.status = "ok"
    /\ Len(Keys(last.preHeap, last.target)) = 2
    /\ Keys(last.preHeap, last.target)[1] = last.key
    /\ ValuesIter(heap, last.target)[1] # ValuesIter(last.preHeap, last.target)[1]

\* C2: document[k] = v on a Document without values succeeds and leaves
\* exactly one top-level Node, an Object with the single entry k; then
\* document[k] is the Node wrapping v and k in document is true.
C2_AutoCreate ==
    (last.op = "Document.setitem" /\ last.key.t = "str" /\ last.preValues = <<>>) =>
        /\ last.status = "ok"
        /\ Len(values) = 1
        /\ KindOf(heap, values[1]) = "Object"
        /\ Len(heap[values[1]].value.entries) = 1
        /\ heap[values[1]].value.entries[1].key = last.key
        /\ LET r == DocGetItem(heap, values, last.key)
           IN  /\ r.status = "ok"
               /\ IF last.arg.isNode THEN r.ret = last.arg.id
                  ELSE heap[r.ret] = NodeNew(last.arg.val)
        /\ DocContains(heap, values, last.key).flag

C2_Witness ==
    /\ last.op = "Document.setitem"
    /\ last.key.t = "str"
    /\ last.preValues = <<>>
    /\ ~last.arg.isNode
    /\ Len(values) = 1

\* C3: document[k] for a string k raises KeyError when there are no values,
\* when the first value is not an Object, or when the first Object lacks k;
\* otherwise it returns the Node stored under k in the first Object. Only
\* the first value is consulted.
C3_DocStringRead ==
    (last.op = "Document.getitem" /\ last.key.t = "str") =>
        /\ Unchanged
        /\ IF /\ values # <<>>
              /\ KindOf(heap, values[1]) = "Object"
              /\ HasKey(heap, values[1], last.key)
           THEN /\ last.status = "ok"
                /\ \E p \in 1..Len(heap[values[1]].value.entries) :
                      /\ heap[values[1]].value.entries[p].key = last.key
                      /\ heap[values[1]].value.entries[p].node = last.ret
           ELSE last.status = KeyNotFound

C3_Witness ==
    /\ last.op = "Document.getitem"
    /\ last.key.t = "str"
    /\ Len(values) = 2
    /\ KindOf(heap, values[1]) = "Object"
    /\ ~HasKey(heap, values[1], last.key)
    /\ KindOf(heap, values[2]) = "Object"
    /\ HasKey(heap, values[2], last.key)
    /\ last.status = KeyNotFound

\* C4: key in document raises nothing, changes nothing, and is true exactly
\* when values is non-empty, its first Node holds an Object and the Object
\* has the key.
C4_ContainsNeverFails ==
    (last.op = "Document.contains") =>
        /\ last.status = "ok"
        /\ Unchanged
        /\ last.flag = (/\ values # <<>>
                        /\ KindOf(heap, values[1]) = "Object"
                        /\ HasKey(heap, values[1], last.key))

C4_Witness ==
    /\ last.op = "Document.contains"
    /\ values = <<>>
    /\ ~last.flag

\* C5: document[k] = v for a string k, when values is non-empty and its
\* first Node does not hold an Object, raises TypeError and leaves prolog,
\* values and every Node unchanged.
C5_FailFast ==
    (/\ last.op = "Document.setitem"
     /\ last.key.t = "str"
     /\ last.preValues # <<>>
     /\ KindOf(last.preHeap, last.preValues[1]) # "Object") =>
        /\ last.status = TypeMismatch
        /\ Unchanged

C5_Witness ==
    /\ last.op = "Document.setitem"
    /\ last.key.t = "str"
    /\ last.preValues # <<>>
    /\ KindOf(last.preHeap, last.preValues[1]) # "Object"
    /\ last.status = TypeMismatch

\* length of the Array of the last operation's target, before the operation
PreLen == Len(last.preHeap[last.target].value.items)

\* C6 as stated: Array get(i) and set(i, value) raise IndexError and change
\* nothing for every i outside [0, len), negative i included; get(i) returns
\* the Node at position i for i inside [0, len).
C6_Original ==
    (last.op \in {"Array.getitem", "Array.setitem"}) =>
        /\ (last.key.i < 0 \/ last.key.i >= PreLen) =>
              last.status = IndexOutOfRange /\ Unchanged
        /\ (last.op = "Array.getitem" /\ last.key.i >= 0 /\ last.key.i < PreLen) =>
              /\ last.status = "ok"
              /\ last.ret = last.preHeap[last.target].value.items[last.key.i + 1]

\* C6 amended: Array get(i) and set(i, value) raise IndexError and change
\* nothing for every i outside [-len, len); get(i) returns the Node at
\* position i for i inside [0, len), and the Node at position len + i for
\* i inside [-len, 0).
C6_Amended ==
    (last.op \in {"Array.getitem", "Array.setitem"}) =>
        /\ (last.key.i < 0 - PreLen \/ last.key.i >= PreLen) =>
              last.status = IndexOutOfRange /\ Unchanged
        /\ (last.op = "Array.getitem" /\ last.key.i >= 0 /\ last.key.i < PreLen) =>
              /\ last.status = "ok"
              /\ last.ret = last.preHeap[last.target].value.items[last.key.i + 1]
        /\ (last.op = "Array.getitem" /\ last.key.i < 0 /\ last.key.i >= 0 - PreLen) =>
              /\ last.status = "ok"
              /\ last.ret = last.preHeap[last.target].value.items[PreLen + last.key.i + 1]

C6_Witness ==
    /\ last.op = "Array.setitem"
    /\ PreLen = 2
    /\ last.key.i < 0 - PreLen
    /\ last.status = IndexOutOfRange

\* C7 as stated: document[i] and document[i] = v raise IndexError and leave
\* values unchanged for every integer i outside [0, len(values)); a write
\* inside the range replaces only values[i]; the length never changes.
C7_Original ==
    (last.op \in {"Document.getitem", "Document.setitem"} /\ last.key.t = "int") =>
        /\ (last.key.i < 0 \/ last.key.i >= Len(last.preValues)) =>
              last.status = IndexOutOfRange /\ Unchanged
        /\ (/\ last.op = "Document.setitem"
            /\ last.key.i >= 0
            /\ last.key.i < Len(last.preValues)) =>
              /\ last.status = "ok"
              /\ values = [last.preValues EXCEPT ![last.key.i + 1] = Stored]
        /\ Len(values) = Len(last.preValues)

\* C7 amended: document[i] and document[i] = v raise IndexError and leave
\* values unchanged for every integer i outside [-len, len); a write with i
\* inside [0, len) replaces only values[i], one with i inside [-len, 0)
\* replaces only values[len + i]; the length never changes.
C7_Amended ==
    (last.op \in {"Document.getitem", "Document.setitem"} /\ last.key.t = "int") =>
        /\ (last.key.i < 0 - Len(last.preValues) \/ last.key.i >= Len(last.preValues)) =>
              last.status = IndexOutOfRange /\ Unchanged
        /\ (/\ last.op = "Document.setitem"
            /\ last.key.i >= 0
            /\ last.key.i < Len(last.preValues)) =>
              /\ last.status = "ok"
              /\ values = [last.preValues EXCEPT ![last.key.i + 1] = Stored]
        /\ (/\ last.op = "Document.setitem"
            /\ last.key.i < 0
            /\ last.key.i >= 0 - Len(last.preValues)) =>
              /\ last.status = "ok"
              /\ values = [last.preValues EXCEPT
                              ![Len(last.preValues) + last.key.i + 1] = Stored]
        /\ Len(values) = Len(last.preValues)

C7_Witness ==
    /\ last.op = "Document.setitem"
    /\ last.key.t = "int"
    /\ last.preValues # <<>>
    /\ last.key.i = Len(last.preValues)
    /\ last.status = IndexOutOfRange

\* the Nodes of the Array of Node a, in order, compared as the dataclasses
\* compare them
Contents(h, a) == [p \in 1..Len(h[a].value.items) |-> h[h[a].value.items[p]]]

\* C8: array.set(i, n) with the bare integer n leaves the Array with the
\* contents array.set(i, Node.new(Int(n))) leaves it with, and the slot
\* holds a Node without tags and annotations.
C8_AutoWrapEqual ==
    (/\ last.op = "Array.setitem"
     /\ last.status = "ok"
     /\ ~last.arg.isNode
     /\ last.arg.val.kind = "int") =>
        LET made == Append(last.preHeap, NodeNew(Int_(last.arg.val.v)))
            other == ArraySetItem(made, last.preValues, last.target, last.key,
                                  NodeArg(Len(made)))
            slot == heap[last.target].value.items[ListIndex(PreLen, last.key.i)]
        IN  /\ Contents(heap, last.target) = Contents(other.heap, last.target)
            /\ heap[slot].tags = <<>>
            /\ heap[slot].annotations = <<>>

\* the key kind does not match the container kind of the Node's Value
KindMismatch(h, n, k) ==
    \/ KindOf(h, n) = "Array" /\ k.t = "str"
    \/ KindOf(h, n) = "Object" /\ k.t = "int"
    \/ KindOf(h, n) \notin {"Array", "Object"}

\* C9: node[key] and node[key] = v raise TypeError, and no other error,
\* whenever the key kind does not match the container kind: a string key
\* against an Array, an integer key against an Object, any key against a
\* Value that is no container.
C9_KindMismatch ==
    (/\ last.op \in {"Node.getitem", "Node.setitem"}
     /\ KindMismatch(last.preHeap, last.target, last.key)) =>
        last.status = TypeMismatch

\* the parent slots that hold Node n
SlotsOf(h, vs, n) ==
    {<<0, p>> : p \in {q \in 1..Len(vs) : vs[q] = n}}
    \cup UNION {{<<c, p>> : p \in {q \in 1..Len(h[c].value.items) :
                                        h[c].value.items[q] = n}}
                : c \in 1..Len(h)}
    \cup UNION {{<<c, p>> : p \in {q \in 1..Len(h[c].value.entries) :
                                        h[c].value.entries[q].node = n}}
                : c \in 1..Len(h)}

\* the Nodes held by the container of Node c
Children(h, c) ==
    {h[c].value.items[q] : q \in 1..Len(h[c].value.items)}
    \cup {h[c].value.entries[q].node : q \in 1..Len(h[c].value.entries)}

RECURSIVE Descendants(_, _, _)
\* the Nodes reachable from the Nodes of set S in at most d steps down
Descendants(h, S, d) ==
    IF d = 0 THEN S
    ELSE S \cup Descendants(h, UNION {Children(h, c) : c \in S}, d - 1)

\* C10: no Node is held by more than one parent slot and no container is
\* reachable from itself through the Nodes it holds.
C10_TreeShaped ==
    \A n \in 1..Len(heap) :
        /\ Cardinality(SlotsOf(heap, values, n)) <= 1
        /\ n \notin Descendants(heap, Children(heap, n), Len(heap))

====
